---- MODULE Spec2Model ----
(***************************************************************************)
(* A model of the stock_price_simulator engine: the seeded GBM path        *)
(* generator, the stock simulator, the Black-Scholes and Monte Carlo       *)
(* option pricers, the futures and ETF composers, and the Black-Scholes    *)
(* HTTP handler.                                                           *)
(*                                                                         *)
(* Numbers.  An f64 is modelled by a fixed-point integer: the value v is   *)
(* the integer v * One, One = 2^FracBits.  Every arithmetic operation      *)
(* rounds its exact result down to the grid, as an f64 operation rounds to *)
(* a representable value.  exp is modelled by FExp, the piecewise-linear   *)
(* interpolation of 2^x (exact at whole x, FExp(0) = 1, monotone,          *)
(* underflowing to 0 and overflowing to Inf); this fixes the unit in which *)
(* exponents are measured and nothing else.                                *)
(*                                                                         *)
(* Randomness.  StdRng::seed_from_u64(s) is a fixed function of s: draw k  *)
(* of seed s is NormalStream(s, k).  StdRng::from_entropy() may produce    *)
(* any draws.  Draws range over NormalValues.                              *)
(***************************************************************************)
EXTENDS Integers, Sequences, FiniteSets, TLC

\* ------------------------------------------------------------------ bounds
FracBits == 3          \* fractional bits of the fixed-point grid
MaxExp == 10           \* largest finite binary exponent of a modelled f64
SeedBits == 2          \* width of the modelled u64 seed
MaxPoints == 3         \* largest num_points / days / num_steps_per_path drawn
MaxPaths == 2          \* largest num_paths drawn
MaxConstituents == 3   \* longest constituent list drawn

\* ------------------------------------------------------- fixed-point f64
One == 2 ^ FracBits
Half == One \div 2
FMax == One * (2 ^ MaxExp)
Inf == FMax + 1
NegInf == 0 - Inf
NaN == FMax + 2

IsNaN(a) == a = NaN
IsInf(a) == a = Inf \/ a = NegInf
IsFinite(a) == ~IsNaN(a) /\ ~IsInf(a)

Saturate(x) == IF x > FMax THEN Inf ELSE IF x < 0 - FMax THEN NegInf ELSE x

Sign(a) == IF a > 0 THEN 1 ELSE IF a < 0 THEN 0 - 1 ELSE 0

FAdd(a, b) ==
    IF IsNaN(a) \/ IsNaN(b) THEN NaN
    ELSE IF IsInf(a) /\ IsInf(b) THEN (IF a = b THEN a ELSE NaN)
    ELSE IF IsInf(a) THEN a
    ELSE IF IsInf(b) THEN b
    ELSE Saturate(a + b)

FNeg(a) == IF IsNaN(a) THEN NaN ELSE 0 - a

FSub(a, b) == FAdd(a, FNeg(b))

FMul(a, b) ==
    IF IsNaN(a) \/ IsNaN(b) THEN NaN
    ELSE IF IsInf(a) \/ IsInf(b)
         THEN (IF a = 0 \/ b = 0 THEN NaN
               ELSE IF Sign(a) * Sign(b) > 0 THEN Inf ELSE NegInf)
    ELSE Saturate((a * b) \div One)

FDiv(a, b) ==
    IF IsNaN(a) \/ IsNaN(b) THEN NaN
    ELSE IF IsInf(a) /\ IsInf(b) THEN NaN
    ELSE IF IsInf(a) THEN (IF Sign(a) * (IF b < 0 THEN 0 - 1 ELSE 1) > 0 THEN Inf ELSE NegInf)
    ELSE IF IsInf(b) THEN 0
    ELSE IF b = 0 THEN (IF a = 0 THEN NaN ELSE IF a > 0 THEN Inf ELSE NegInf)
    ELSE Saturate((a * One) \div b)

\* f64::max: the other operand when one is NaN
FMaxOf(a, b) == IF IsNaN(a) THEN b ELSE IF IsNaN(b) THEN a ELSE IF a >= b THEN a ELSE b

\* comparisons with NaN are false
FLe(a, b) == ~IsNaN(a) /\ ~IsNaN(b) /\ a <= b
FLt(a, b) == ~IsNaN(a) /\ ~IsNaN(b) /\ a < b
FGt(a, b) == ~IsNaN(a) /\ ~IsNaN(b) /\ a > b

\* f64::sqrt: the largest grid value whose square does not exceed a
FSqrt(a) ==
    IF IsNaN(a) \/ a < 0 THEN NaN
    ELSE IF a = Inf THEN Inf
    ELSE CHOOSE s \in 0..(a * One) : s * s <= a * One /\ (s + 1) * (s + 1) > a * One

\* f64::exp
FExp(x) ==
    IF IsNaN(x) THEN NaN
    ELSE IF x = Inf THEN Inf
    ELSE IF x = NegInf THEN 0
    ELSE LET n == x \div One
             mant == One + (x - n * One)
         IN  IF n > MaxExp THEN Inf
             ELSE IF n >= 0 THEN Saturate(mant * (2 ^ n))
             ELSE IF 0 - n > MaxExp + FracBits + 1 THEN 0
             ELSE mant \div (2 ^ (0 - n))

\* the float-to-integer cast `as i64`: truncates toward zero, NaN to 0
AsI64(a) == IF IsNaN(a) THEN 0 ELSE IF a >= 0 THEN a \div One ELSE 0 - ((0 - a) \div One)

\* ------------------------------------------------------------------ seeds
SeedMod == 2 ^ SeedBits
Seeds == 0..(SeedMod - 1)
None == << >>
Some(s) == << s >>
IsSome(o) == Len(o) = 1
SeedOptions == {None} \cup {Some(s) : s \in Seeds}

\* ------------------------------------------------------------------- rng
NormalValues == {0 - One, One}

\* draw k (1-based) of StdRng::seed_from_u64(s)
NormalStream(s, k) ==
    LET h == ((s + 2) * (k + 3) * (s + k + 1) + s) % 7
    IN  IF h % 2 = 0 THEN 0 - One ELSE One

\* a seeded generator whose draws are handed out last first
Draws_LastFirst(seed, steps) ==
    IF IsSome(seed)
    THEN {[k \in 1..steps |-> NormalStream(seed[1], steps + 1 - k)]}
    ELSE [1..steps -> NormalValues]

\* a generator that is never seeded
Draws_NeverSeeded(seed, steps) == [1..steps -> NormalValues]

\* the sequences of `steps` draws the generator may hand out
Draws(seed, steps) ==
    IF IsSome(seed)
    THEN {[k \in 1..steps |-> NormalStream(seed[1], k)]}
    ELSE [1..steps -> NormalValues]

\* ------------------------------------------------------ random_process.rs
TradingDaysPerYear == 252
SecondsPerDay == 24 * 60 * 60

TimeSeries(ts, ps) == [timestamps |-> ts, prices |-> ps]

NoSeries == TimeSeries(<< >>, << >>)

\* dt_for_formula: dt in days as a year fraction
DtForFormula(dt) == FDiv(dt, TradingDaysPerYear * One)

\* dt_duration in whole seconds; the product dt * 86400 is held exactly
DtDuration(dt) ==
    IF dt >= 0 THEN (dt * SecondsPerDay) \div One
    ELSE 0 - (((0 - dt) * SecondsPerDay) \div One)

\* the factor one loop iteration multiplies current_price by
GbmFactor(drift, volatility, dt, w) ==
    LET dtf == DtForFormula(dt)
    IN  FExp(FAdd(FMul(FSub(drift, FMul(Half, FMul(volatility, volatility))), dtf),
                  FMul(FMul(volatility, FSqrt(dtf)), w)))

\* a loop that updates the price before it pushes it
GbmPrices_UpdateFirst(drift, volatility, initial_value, dt, steps, ws) ==
    LET p[k \in 1..steps] ==
            FMul(IF k = 1 THEN initial_value ELSE p[k - 1],
                 GbmFactor(drift, volatility, dt, ws[k]))
    IN  [k \in 1..steps |-> p[k]]

\* the prices pushed by the loop: the current price first, the update after
GbmPrices(drift, volatility, initial_value, dt, steps, ws) ==
    LET p[k \in 1..steps] ==
            IF k = 1 THEN initial_value
            ELSE FMul(p[k - 1], GbmFactor(drift, volatility, dt, ws[k - 1]))
    IN  [k \in 1..steps |-> p[k]]

\* the timestamps pushed by the loop, in seconds after 2024-01-01T00:00:00
GbmTimestamps(dt, steps) == [k \in 1..steps |-> (k - 1) * DtDuration(dt)]

\* the body of generate_path for the draws ws the rng hands out
GbmPath(drift, volatility, initial_value, dt, steps, ws) ==
    TimeSeries(GbmTimestamps(dt, steps),
               GbmPrices(drift, volatility, initial_value, dt, steps, ws))

\* GeometricBrownianMotion::generate_path: the paths a call may return
GeneratePath(drift, volatility, initial_value, dt, steps, seed) ==
    {GbmPath(drift, volatility, initial_value, dt, steps, ws) : ws \in Draws(seed, steps)}

\* ---------------------------------------------------------------- results
\* what a call hands back: Ok / Err(msg) / Panic (the call aborts), and gens,
\* the number of generate_path calls it made on the way
Result(kind, msg, price, series, gens) ==
    [kind |-> kind, msg |-> msg, price |-> price, series |-> series, gens |-> gens]

OkSeries(s, g) == Result("Ok", "", 0, s, g)
OkPrice(p, g) == Result("Ok", "", p, NoSeries, g)
Err(m, g) == Result("Err", m, 0, NoSeries, g)
\* an error whose message ends "Got {}": price holds the value formatted into it
ErrGot(m, v, g) == Result("Err", m, v, NoSeries, g)
Panic(m, g) == Result("Panic", m, 0, NoSeries, g)
Pending == Result("Pending", "", 0, NoSeries, 0)

\* ------------------------------------------------------ stock_simulation.rs
\* a simulator that rejects zero volatility as well
SimulateStockPrice_RejectsZeroVolatility(initial_price, drift, volatility, days, time_step_days, seed) ==
    IF FLe(initial_price, 0) THEN {Err("Initial price must be positive.", 0)}
    ELSE IF FLe(volatility, 0) THEN {Err("Volatility cannot be negative.", 0)}
    ELSE IF FLe(time_step_days, 0) THEN {Err("Time step must be positive.", 0)}
    ELSE IF days = 0 THEN {Err("Number of days (steps) must be positive.", 0)}
    ELSE {OkSeries(path, 1) :
            path \in GeneratePath(drift, volatility, initial_price, time_step_days, days, seed)}

\* StockSimulator::simulate_stock_price: the results a call may return
SimulateStockPrice(initial_price, drift, volatility, days, time_step_days, seed) ==
    IF FLe(initial_price, 0) THEN {Err("Initial price must be positive.", 0)}
    ELSE IF FLt(volatility, 0) THEN {Err("Volatility cannot be negative.", 0)}
    ELSE IF FLe(time_step_days, 0) THEN {Err("Time step must be positive.", 0)}
    ELSE IF days = 0 THEN {Err("Number of days (steps) must be positive.", 0)}
    ELSE {OkSeries(path, 1) :
            path \in GeneratePath(drift, volatility, initial_price, time_step_days, days, seed)}

\* -------------------------------------------------------- option_pricing.rs
\* f64::ln, the inverse of FExp
Pow2(n) == IF n >= 0 THEN One * (2 ^ n) ELSE One \div (2 ^ (0 - n))

FLn(x) ==
    IF IsNaN(x) \/ x < 0 THEN NaN
    ELSE IF x = 0 THEN NegInf
    ELSE IF x = Inf THEN Inf
    ELSE LET n == CHOOSE m \in (0 - FracBits)..MaxExp : Pow2(m) <= x /\ x < Pow2(m + 1)
         IN  IF n >= 0 THEN n * One + (x \div (2 ^ n)) - One
             ELSE n * One + x * (2 ^ (0 - n)) - One

\* the standard normal cdf (statrs Normal::cdf), piecewise linear about 0
FCdf(d) ==
    IF IsNaN(d) THEN NaN
    ELSE LET v == Half + (d \div 4)
         IN  IF v < 0 THEN 0 ELSE IF v > One THEN One ELSE v

\* max(S - K, 0) for a call, max(K - S, 0) for a put
IntrinsicValue(s, k, option_type) ==
    IF option_type = "Call" THEN FMaxOf(FSub(s, k), 0) ELSE FMaxOf(FSub(k, s), 0)

\* (-r * t).exp()
DiscountFactor(r, t) == FExp(FMul(FNeg(r), t))

\* the closed form behind the validation of black_scholes_price
BlackScholesFormula(s, k, t, r, sigma, option_type) ==
    LET d1 == FDiv(FAdd(FLn(FDiv(s, k)),
                        FMul(FAdd(r, FMul(Half, FMul(sigma, sigma))), t)),
                   FMul(sigma, FSqrt(t)))
        d2 == FSub(d1, FMul(sigma, FSqrt(t)))
        cnd_d1 == FCdf(d1)
        cnd_d2 == FCdf(d2)
    IN  IF option_type = "Call"
        THEN FSub(FMul(s, cnd_d1), FMul(FMul(k, DiscountFactor(r, t)), cnd_d2))
        ELSE FSub(FMul(FMul(k, DiscountFactor(r, t)), FSub(One, cnd_d2)),
                  FMul(s, FSub(One, cnd_d1)))

\* a pricer that validates sigma before the intrinsic-value shortcut
BlackScholesPrice_SigmaFirst(s, k, t, r, sigma, option_type) ==
    IF FLe(s, 0) THEN ErrGot("Underlying price (S) must be positive. Got {}", s, 0)
    ELSE IF FLe(k, 0) THEN ErrGot("Strike price (K) must be positive. Got {}", k, 0)
    ELSE IF FLe(sigma, 0) THEN ErrGot("Volatility (sigma) must be positive. Got {}", sigma, 0)
    ELSE IF FLe(t, 0) THEN OkPrice(IntrinsicValue(s, k, option_type), 0)
    ELSE IF FLt(r, 0) /\ IsInf(DiscountFactor(r, t))
         THEN ErrGot("Risk-free rate (r) is too negative, leading to instability. Got {}",
                     r, 0)
    ELSE OkPrice(BlackScholesFormula(s, k, t, r, sigma, option_type), 0)

\* a pricer that takes the intrinsic-value shortcut before it validates S and K
BlackScholesPrice_ShortcutFirst(s, k, t, r, sigma, option_type) ==
    IF FLe(t, 0) THEN OkPrice(IntrinsicValue(s, k, option_type), 0)
    ELSE IF FLe(s, 0) THEN ErrGot("Underlying price (S) must be positive. Got {}", s, 0)
    ELSE IF FLe(k, 0) THEN ErrGot("Strike price (K) must be positive. Got {}", k, 0)
    ELSE IF FLt(r, 0) /\ IsInf(DiscountFactor(r, t))
         THEN ErrGot("Risk-free rate (r) is too negative, leading to instability. Got {}",
                     r, 0)
    ELSE IF FLe(sigma, 0) THEN ErrGot("Volatility (sigma) must be positive. Got {}", sigma, 0)
    ELSE OkPrice(BlackScholesFormula(s, k, t, r, sigma, option_type), 0)

\* black_scholes_price
BlackScholesPrice(s, k, t, r, sigma, option_type) ==
    IF FLe(s, 0) THEN ErrGot("Underlying price (S) must be positive. Got {}", s, 0)
    ELSE IF FLe(k, 0) THEN ErrGot("Strike price (K) must be positive. Got {}", k, 0)
    ELSE IF FLe(t, 0) THEN OkPrice(IntrinsicValue(s, k, option_type), 0)
    ELSE IF FLt(r, 0) /\ IsInf(DiscountFactor(r, t))
         THEN ErrGot("Risk-free rate (r) is too negative, leading to instability. Got {}",
                     r, 0)
    ELSE IF FLe(sigma, 0) THEN ErrGot("Volatility (sigma) must be positive. Got {}", sigma, 0)
    ELSE OkPrice(BlackScholesFormula(s, k, t, r, sigma, option_type), 0)

\* an error whose message ends with the requested asset identifier
ErrFor(m, asset_identifier) == Err(m, 0) @@ [asset_identifier |-> asset_identifier]

\* config::GeometricBrownianMotionParams
GeometricBrownianMotionParams(drift, volatility) ==
    [drift |-> drift, volatility |-> volatility]

\* config::AssetModelConfig; ModelType has the one variant
AssetModelConfig(asset_type, asset_identifier_pattern, gbm) ==
    [asset_type |-> asset_type, asset_identifier_pattern |-> asset_identifier_pattern,
     default_model |-> "GeometricBrownianMotion", parameters |-> [gbm |-> gbm]]

\* config::GlobalConfig
GlobalConfig(random_seed, simulation_period_days, time_step_minutes, asset_models) ==
    [random_seed |-> random_seed, simulation_period_days |-> simulation_period_days,
     time_step_minutes |-> time_step_minutes, asset_models |-> asset_models]

\* Option::unwrap_or that ignores the Option
UnwrapOr_IgnoreOverride(opt, default) == default

\* Option::unwrap_or
UnwrapOr(opt, default) == IF opt = None THEN default ELSE opt[1]

\* a lookup by identifier alone
FindModel_AnyAssetType(asset_models, asset_identifier) ==
    LET matching == {j \in 1..Len(asset_models) :
                        asset_models[j].asset_identifier_pattern = asset_identifier}
    IN  IF matching = {} THEN None
        ELSE Some(asset_models[CHOOSE j \in matching : \A m \in matching : j <= m])

\* .iter().find(..): the first stock entry whose pattern is the identifier
FindModel(asset_models, asset_identifier) ==
    LET matching == {j \in 1..Len(asset_models) :
                        /\ asset_models[j].asset_type = "stock"
                        /\ asset_models[j].asset_identifier_pattern = asset_identifier}
    IN  IF matching = {} THEN None
        ELSE Some(asset_models[CHOOSE j \in matching : \A m \in matching : j <= m])

\* api_interface::simulate_stock_with_config
SimulateStockWithConfig(asset_identifier, config, initial_price, days, time_step_days, seed, override_drift, override_volatility) ==
    IF config.asset_models = None
    THEN {Err("No asset_models configured in GlobalConfig.", 0)}
    ELSE LET model_config == FindModel(config.asset_models[1], asset_identifier)
         IN  IF model_config = None
             THEN {ErrFor("No model config found for stock identifier: {}", asset_identifier)}
             ELSE LET gbm == model_config[1].parameters.gbm
                  IN  IF gbm = None
                      THEN {ErrFor("GBM parameters not configured for identifier: {}",
                                   asset_identifier)}
                      ELSE SimulateStockPrice(initial_price,
                                              UnwrapOr(override_drift, gbm[1].drift),
                                              UnwrapOr(override_volatility, gbm[1].volatility),
                                              days, time_step_days, seed)

\* the Result of each element of underlying_prices, in input order
PricedSeries(k, t, r, sigma, option_type, underlying_prices) ==
    [j \in 1..Len(underlying_prices) |->
        BlackScholesPrice(underlying_prices[j], k, t, r, sigma, option_type)]

\* a series pricer that drops the elements that fail
PriceSeriesForBlackScholes_SkipFailures(k, t, r, sigma, option_type, underlying_prices) ==
    LET priced == PricedSeries(k, t, r, sigma, option_type, underlying_prices)
        kept[j \in 0..Len(priced)] ==
            IF j = 0 THEN << >>
            ELSE IF priced[j].kind = "Ok" THEN Append(kept[j - 1], priced[j].price)
            ELSE kept[j - 1]
    IN  OkSeries(TimeSeries(<< >>, kept[Len(priced)]), 0)

\* price_series_for_black_scholes: collect stops at the first Err
PriceSeriesForBlackScholes(k, t, r, sigma, option_type, underlying_prices) ==
    LET priced == PricedSeries(k, t, r, sigma, option_type, underlying_prices)
        failing == {j \in 1..Len(priced) : priced[j].kind = "Err"}
    IN  IF failing = {}
        THEN OkSeries(TimeSeries(<< >>, [j \in 1..Len(priced) |-> priced[j].price]), 0)
        ELSE priced[CHOOSE j \in failing : \A m \in failing : j <= m]

\* a guard that lets T = 0 through
McInvalid_StrictT(t, num_paths, num_steps_per_path) ==
    FLt(t, 0) \/ num_paths = 0 \/ num_steps_per_path = 0

\* the guard that opens MonteCarloOptionPricer::price
McInvalid(t, num_paths, num_steps_per_path) ==
    FLe(t, 0) \/ num_paths = 0 \/ num_steps_per_path = 0

\* a step left in years, not scaled to trading days
McStepDays_InYears(t, num_steps_per_path) == FDiv(t, num_steps_per_path * One)

\* dt_for_gbm_step_in_days
McStepDays(t, num_steps_per_path) ==
    FDiv(FMul(t, TradingDaysPerYear * One), num_steps_per_path * One)

\* u64 addition: a build with overflow checks aborts, one without wraps
U64Overflows(a, b) == a + b >= SeedMod
U64Add(a, b) == (a + b) % SeedMod

\* a derivation that hands every item the base seed
DeriveSeed_NoIndex(initial_seed, i) == initial_seed

\* initial_seed + i as u64, the seed of item i of a seeded run
DeriveSeed(initial_seed, i) == U64Add(initial_seed, i)

\* path_seeds, once the derivation loop has run to its end
PathSeeds(seed, num_paths) ==
    [j \in 1..num_paths |-> IF IsSome(seed) THEN Some(DeriveSeed(seed[1], j - 1)) ELSE None]

\* whether the derivation loop of a checked build aborts
PathSeedsOverflow(seed, num_paths) ==
    IsSome(seed) /\ \E j \in 1..num_paths : U64Overflows(seed[1], j - 1)

\* s_t of one path: path.prices.last()
LastPrice(path) == path.prices[Len(path.prices)]

\* the payoff of one path
Payoff(s_t, strike_price, option_type) ==
    IF option_type = "Call" THEN FMaxOf(FSub(s_t, strike_price), 0)
    ELSE FMaxOf(FSub(strike_price, s_t), 0)

\* total_payoff after the loop over the first m paths
TotalPayoff(all_paths, m, strike_price, option_type) ==
    LET acc[j \in 0..m] ==
            IF j = 0 THEN 0
            ELSE FAdd(acc[j - 1], Payoff(LastPrice(all_paths[j]), strike_price, option_type))
    IN  acc[m]

\* discounted_price
McDiscountedPrice(all_paths, num_paths, strike_price, option_type, r, t) ==
    FMul(FDiv(TotalPayoff(all_paths, Len(all_paths), strike_price, option_type),
              num_paths * One),
         DiscountFactor(r, t))

\* ----------------------------------------------------- futures_simulation.rs
DaysInYear == 365

\* f64::ceil followed by `as usize`: saturating, NaN to 0
CeilAsUsize(a) ==
    IF IsNaN(a) \/ a <= 0 THEN 0
    ELSE IF a = Inf THEN 2 ^ MaxExp
    ELSE (a + One - 1) \div One

\* a step count that leaves out the point of the initial spot price
FuturesGbmSteps_NoInitialPoint(time_to_maturity_days, time_step_days) ==
    IF time_to_maturity_days = 0 THEN 1
    ELSE CeilAsUsize(FDiv(time_to_maturity_days * One, time_step_days))

\* gbm_steps: the number of spot points requested
FuturesGbmSteps(time_to_maturity_days, time_step_days) ==
    IF time_to_maturity_days = 0 THEN 1
    ELSE CeilAsUsize(FDiv(time_to_maturity_days * One, time_step_days)) + 1

\* a remaining time that goes negative past maturity
RemainingTimeYears_NoClamp(time_to_maturity_days, time_step_days, i) ==
    FDiv(FSub(time_to_maturity_days * One, FMul(i * One, time_step_days)), DaysInYear * One)

\* remaining_time_years at index i (0-based)
RemainingTimeYears(time_to_maturity_days, time_step_days, i) ==
    FDiv(FMaxOf(FSub(time_to_maturity_days * One, FMul(i * One, time_step_days)), 0),
         DaysInYear * One)

\* a cost of carry with the sign of the exponent reversed
FuturesPrices_NegativeCarry(spot, r, time_to_maturity_days, time_step_days) ==
    [k \in 1..Len(spot.prices) |->
        FMul(spot.prices[k],
             FExp(FNeg(FMul(r, RemainingTimeYears(time_to_maturity_days, time_step_days,
                                                  k - 1)))))]

\* a cost of carry that leaves the rate out of the exponent
FuturesPrices_UnitRate(spot, r, time_to_maturity_days, time_step_days) ==
    [k \in 1..Len(spot.prices) |->
        FMul(spot.prices[k],
             FExp(RemainingTimeYears(time_to_maturity_days, time_step_days, k - 1)))]

\* futures_prices built from the spot path
FuturesPrices(spot, r, time_to_maturity_days, time_step_days) ==
    [k \in 1..Len(spot.prices) |->
        FMul(spot.prices[k],
             FExp(FMul(r, RemainingTimeYears(time_to_maturity_days, time_step_days, k - 1))))]

\* checks that also reject a contract already at maturity
FuturesError_RejectsZeroMaturity(initial_spot_price, volatility, time_to_maturity_days, time_step_days) ==
    IF FLe(initial_spot_price, 0) THEN "Initial spot price must be positive."
    ELSE IF FLt(volatility, 0) THEN "Volatility cannot be negative."
    ELSE IF FLe(time_step_days, 0) THEN "Time step in days must be positive."
    ELSE IF time_to_maturity_days = 0 THEN "Time to maturity must be positive."
    ELSE ""

\* the checks that open simulate_futures_price: the message, "" when all pass
FuturesError(initial_spot_price, volatility, time_to_maturity_days, time_step_days) ==
    IF FLe(initial_spot_price, 0) THEN "Initial spot price must be positive."
    ELSE IF FLt(volatility, 0) THEN "Volatility cannot be negative."
    ELSE IF FLe(time_step_days, 0) THEN "Time step in days must be positive."
    ELSE ""

\* spot_path: the spot paths the generate_path call may return
SpotPaths(initial_spot_price, r, volatility, time_to_maturity_days, time_step_days, seed) ==
    GeneratePath(r, volatility, initial_spot_price, time_step_days,
                 FuturesGbmSteps(time_to_maturity_days, time_step_days), seed)

\* the TimeSeries returned for the spot path: its timestamps, the futures prices
FuturesSeries(spot, r, time_to_maturity_days, time_step_days) ==
    TimeSeries(spot.timestamps, FuturesPrices(spot, r, time_to_maturity_days, time_step_days))

\* simulate_futures_price: the results a call may return
SimulateFuturesPrice(initial_spot_price, r, volatility, time_to_maturity_days, time_step_days, seed) ==
    IF FuturesError(initial_spot_price, volatility, time_to_maturity_days, time_step_days) # ""
    THEN {Err(FuturesError(initial_spot_price, volatility, time_to_maturity_days,
                           time_step_days), 0)}
    ELSE {OkSeries(FuturesSeries(spot, r, time_to_maturity_days, time_step_days), 1) :
            spot \in SpotPaths(initial_spot_price, r, volatility, time_to_maturity_days,
                               time_step_days, seed)}

\* --------------------------------------------------------- etf_simulation.rs
\* WEIGHT_SUM_ACCURACY = 1e-6 on the grid
WeightSumAccuracy == One \div 1000000

FAbs(a) == IF IsNaN(a) THEN NaN ELSE IF a < 0 THEN 0 - a ELSE a

\* total_weight: the weights summed in list order from 0.0
TotalWeight(constituents) ==
    LET acc[j \in 0..Len(constituents)] ==
            IF j = 0 THEN 0 ELSE FAdd(acc[j - 1], constituents[j].weight)
    IN  acc[Len(constituents)]

\* the checks made before the constituent loop: the message, "" when all pass
EtfEntryError(constituents, simulation_days, time_step_days) ==
    IF Len(constituents) = 0 THEN "ETF constituents list cannot be empty."
    ELSE IF FGt(FAbs(FSub(TotalWeight(constituents), One)), WeightSumAccuracy)
         THEN "Sum of constituent weights must be close to 1.0."
    ELSE IF simulation_days = 0 THEN "Simulation days must be greater than 0."
    ELSE IF FLe(time_step_days, 0) THEN "Time step in days must be positive."
    ELSE ""

\* the checks that open one iteration of the constituent loop
ConstituentError(constituent) ==
    IF FLe(constituent.initial_price, 0) THEN "Constituent initial price must be positive."
    ELSE IF FLt(constituent.volatility, 0) THEN "Constituent volatility cannot be negative."
    ELSE IF FLt(constituent.weight, 0) THEN "Constituent weight cannot be negative."
    ELSE ""

\* a NAV that divides each weighted price by the initial price
NavAt_DivideByPrice(constituents, constituent_price_paths, t) ==
    LET acc[j \in 0..Len(constituents)] ==
            IF j = 0 THEN 0
            ELSE FAdd(acc[j - 1],
                      FDiv(FMul(constituents[j].weight, constituent_price_paths[j][t]),
                           constituents[j].initial_price))
    IN  acc[Len(constituents)]

\* nav_at_t for the 1-based time index t
NavAt(constituents, constituent_price_paths, t) ==
    LET acc[j \in 0..Len(constituents)] ==
            IF j = 0 THEN 0
            ELSE FAdd(acc[j - 1],
                      FMul(FDiv(constituents[j].weight, constituents[j].initial_price),
                           constituent_price_paths[j][t]))
    IN  acc[Len(constituents)]

\* etf_nav_path
EtfNavPath(constituents, constituent_price_paths, simulation_days) ==
    [t \in 1..simulation_days |-> NavAt(constituents, constituent_price_paths, t)]

\* ------------------------------------------------------------ http_server.rs
\* error_response / success_response of simulate_option_bs_handler
HttpResponse(code, status, error, price) ==
    [code |-> code, status |-> status, error |-> error, price |-> price]

NoResponse == HttpResponse(0, "", "", 0)

BsHandlerResponse(res) ==
    IF res.kind = "Ok" THEN HttpResponse(200, "success", "", res.price)
    ELSE HttpResponse(400, "error", res.msg, 0)

\* --------------------------------------------------------------- requests
Request(op, price, strike, drift, volatility, t, dt, n, num_paths, ttm, seed, option_type, constituents) ==
    [op |-> op, price |-> price, strike |-> strike, drift |-> drift,
     volatility |-> volatility, t |-> t, dt |-> dt, n |-> n, num_paths |-> num_paths,
     ttm |-> ttm, seed |-> seed, option_type |-> option_type,
     constituents |-> constituents]

Constituent(initial_price, drift, volatility, weight) ==
    [initial_price |-> initial_price, drift |-> drift, volatility |-> volatility,
     weight |-> weight]

OptionTypes == {"Call", "Put"}

\* a too negative rate: (-r * 1).exp() overflows
ExtremeRate == 0 - (MaxExp + 1) * One

\* the most negative whole rate whose discount factor (-r * 1).exp() is finite
DeepNegativeRate == 0 - MaxExp * One

\* the seeds drawn for the looping entry points: none, a small one, the largest
LoopSeedOptions == {None, Some(1), Some(SeedMod - 1)}

GeneratePathRequests ==
    {Request("generate_path", v0, 0, mu, sigma, 0, dt, n, 0, 0, seed, "Call", << >>) :
        v0 \in {One, 4 * One}, mu \in {0, One}, sigma \in {0, One},
        dt \in {252 * One, 1008 * One}, n \in 0..MaxPoints, seed \in SeedOptions}

StockRequests ==
    {Request("simulate_stock", v0, 0, mu, sigma, 0, dt, n, 0, 0, seed, "Call", << >>) :
        v0 \in {0 - One, 0, 4 * One}, mu \in {ExtremeRate, 0, One},
        sigma \in {0 - One, 0, One}, dt \in {0 - One, 0, 252 * One}, n \in 0..MaxPoints,
        seed \in SeedOptions}

AnalyticRequests ==
    {Request(op, s, k, r, sigma, t, 0, 0, 0, 0, None, ot, << >>) :
        op \in {"price_option_analytic", "bs_handler"},
        s \in {0, One, 4 * One}, k \in {0 - One, One, 4 * One},
        r \in {ExtremeRate, DeepNegativeRate, 0, One}, sigma \in {0 - One, 0, One},
        t \in {0 - One, 0, One}, ot \in OptionTypes}

MonteCarloRequests ==
    {Request("price_option_monte_carlo", s, 2 * One, r, One, t, 0, n, m, 0, seed, ot, << >>) :
        s \in {0 - One, 0, 4 * One}, r \in {ExtremeRate, 0, One},
        t \in {0 - One, 0, One, 4 * One}, n \in 0..(MaxPoints - 1), m \in 0..MaxPaths, seed \in LoopSeedOptions,
        ot \in OptionTypes}

FuturesRequests ==
    {Request("simulate_futures", s, 0, r, sigma, 0, dt, 0, 0, ttm, seed, "Call", << >>) :
        s \in {0, 4 * One}, r \in {0, One}, sigma \in {0 - One, 0, One},
        dt \in {0, 252 * One, 365 * One}, ttm \in {0, 365, 504}, seed \in SeedOptions}

\* two valid halves, a valid whole whose share count 1/3 is not on the grid, and
\* one constituent for each check of the constituent loop
Constituents ==
    {Constituent(One, 0, One, Half), Constituent(2 * One, One, One, Half),
     Constituent(3 * One, 0, One, One), Constituent(0, 0, One, 0),
     Constituent(One, 0, 0 - One, 0), Constituent(One, 0, One, 0 - Half)}

ConstituentLists ==
    UNION {[1..len -> Constituents] : len \in 0..MaxConstituents}

EtfRequests ==
    {Request("simulate_etf", 0, 0, 0, 0, 0, dt, n, 0, 0, seed, "Call", cs) :
        dt \in {0, 252 * One}, n \in 0..MaxPoints, seed \in LoopSeedOptions,
        cs \in ConstituentLists}

\* the lists of underlying prices drawn: valid and invalid prices in every order
UnderlyingPriceLists ==
    UNION {[1..len -> {0 - One, 0, One, 4 * One}] : len \in 0..MaxPoints}

\* FixedOptionParams in strike, t, drift, volatility, option_type; the list
\* of prices in underlying_prices
PriceSeriesRequests ==
    {Request("price_series", 0, One, r, sigma, t, 0, 0, 0, 0, None, ot, << >>)
        @@ [underlying_prices |-> ps] :
        r \in {ExtremeRate, 0}, sigma \in {0, One}, t \in {0, One}, ot \in OptionTypes,
        ps \in UnderlyingPriceLists}

\* the entries a config file may hold: stock entries with and without gbm
\* parameters, an entry of another asset type, an entry for another identifier
AssetModelConfigs ==
    {AssetModelConfig("stock", "AAPL", None),
     AssetModelConfig("stock", "AAPL", Some(GeometricBrownianMotionParams(0, One))),
     AssetModelConfig("stock", "AAPL", Some(GeometricBrownianMotionParams(One, Half))),
     AssetModelConfig("option", "AAPL", Some(GeometricBrownianMotionParams(0, One))),
     AssetModelConfig("stock", "DEFAULT_STOCK", Some(GeometricBrownianMotionParams(0, One)))}

MaxModels == 2

GlobalConfigs ==
    {GlobalConfig(c[1], c[2], c[3], asset_models) :
        c \in {<< None, 30, 60 >>, << Some(1), 7, 1 >>},
        asset_models \in {None} \cup
            {Some(l) : l \in UNION {[1..len -> AssetModelConfigs] : len \in 0..MaxModels}}}

ConfigRequests ==
    {Request("simulate_stock_with_config", v0, 0, 0, 0, 0, 252 * One, 2, 0, 0, seed, "Call", << >>)
        @@ [asset_identifier |-> id, config |-> config, override_drift |-> od,
            override_volatility |-> ov] :
        v0 \in {0, One}, seed \in {None, Some(1)}, id \in {"AAPL", "MSFT"},
        config \in GlobalConfigs, od \in {None, Some(One)},
        ov \in {None, Some(0 - One), Some(Half)}}

Requests ==
    GeneratePathRequests \cup StockRequests \cup AnalyticRequests
        \cup MonteCarloRequests \cup FuturesRequests \cup EtfRequests
        \cup PriceSeriesRequests \cup ConfigRequests

\* ------------------------------------------------------------------ state
VARIABLES
    build,          \* "debug": integer overflow aborts; "release": it wraps
    req,            \* the request being served
    pc,             \* "called", "mc_paths", "etf_loop", "done"
    first,          \* the result of the same request served before, if any
    result,         \* what the entry point returned
    i,              \* the loop index of the Monte Carlo / constituent loop
    gens,           \* generate_path calls made so far for this request
    path_seeds,     \* the seed handed to generate_path for each item
    all_paths,      \* all_paths / constituent_price_paths / << spot_path >>
    timestamps,     \* the ETF composer's `timestamps` option
    response        \* the HTTP response of the Black-Scholes handler

vars == << build, req, pc, first, result, i, gens, path_seeds, all_paths,
           timestamps, response >>

Init ==
    /\ build \in {"debug", "release"}
    /\ req \in Requests
    /\ pc = "called"
    /\ first = None
    /\ result = Pending
    /\ i = 0
    /\ gens = 0
    /\ path_seeds = << >>
    /\ all_paths = << >>
    /\ timestamps = None
    /\ response = NoResponse

\* an entry point that runs to its end in one step returns res
Return(res) ==
    /\ result' = res
    /\ gens' = res.gens
    /\ pc' = "done"
    /\ UNCHANGED << build, req, first, i, path_seeds, all_paths, timestamps >>

\* a direct call of generate_path
CallGeneratePath ==
    /\ pc = "called" /\ req.op = "generate_path"
    /\ \E path \in GeneratePath(req.drift, req.volatility, req.price, req.dt, req.n, req.seed) :
          Return(OkSeries(path, 1))
    /\ UNCHANGED response

\* api_interface::simulate_stock
SimulateStock ==
    /\ pc = "called" /\ req.op = "simulate_stock"
    /\ \E res \in SimulateStockPrice(req.price, req.drift, req.volatility, req.n, req.dt,
                                     req.seed) :
          Return(res)
    /\ UNCHANGED response

\* api_interface::price_european_option_black_scholes
PriceOptionAnalytic ==
    /\ pc = "called" /\ req.op = "price_option_analytic"
    /\ Return(BlackScholesPrice(req.price, req.strike, req.t, req.drift, req.volatility,
                                req.option_type))
    /\ UNCHANGED response

\* http_server::simulate_option_bs_handler
SimulateOptionBsHandler ==
    /\ pc = "called" /\ req.op = "bs_handler"
    /\ Return(BlackScholesPrice(req.price, req.strike, req.t, req.drift, req.volatility,
                                req.option_type))
    /\ response' = BsHandlerResponse(result')

\* api_interface::simulate_stock_with_config
CallSimulateStockWithConfig ==
    /\ pc = "called" /\ req.op = "simulate_stock_with_config"
    /\ \E res \in SimulateStockWithConfig(req.asset_identifier, req.config, req.price,
                                          req.n, req.dt, req.seed, req.override_drift,
                                          req.override_volatility) :
          Return(res)
    /\ UNCHANGED response

\* option_pricing::price_series_for_black_scholes
PriceSeries ==
    /\ pc = "called" /\ req.op = "price_series"
    /\ Return(PriceSeriesForBlackScholes(req.strike, req.t, req.drift, req.volatility,
                                         req.option_type, req.underlying_prices))
    /\ UNCHANGED response

\* api_interface::simulate_futures
SimulateFutures ==
    /\ pc = "called" /\ req.op = "simulate_futures"
    /\ IF FuturesError(req.price, req.volatility, req.ttm, req.dt) # ""
       THEN /\ result' = Err(FuturesError(req.price, req.volatility, req.ttm, req.dt), 0)
            /\ UNCHANGED << gens, all_paths >>
       ELSE \E spot \in SpotPaths(req.price, req.drift, req.volatility, req.ttm, req.dt,
                                  req.seed) :
              /\ result' = OkSeries(FuturesSeries(spot, req.drift, req.ttm, req.dt), 1)
              /\ gens' = 1
              /\ all_paths' = << spot >>
    /\ result' \in SimulateFuturesPrice(req.price, req.drift, req.volatility, req.ttm,
                                        req.dt, req.seed)
    /\ pc' = "done"
    /\ UNCHANGED << build, req, first, i, path_seeds, timestamps, response >>

\* a looping entry point stops with res
Stop(res) ==
    /\ result' = res
    /\ pc' = "done"
    /\ UNCHANGED << build, req, first, i, gens, path_seeds, all_paths, timestamps,
                    response >>

\* MonteCarloOptionPricer::price up to the path loop: the guard, then the
\* seed derivation of simulate_underlying_paths
McStart ==
    /\ pc = "called" /\ req.op = "price_option_monte_carlo"
    /\ IF McInvalid(req.t, req.num_paths, req.n)
       THEN Stop(Err("Invalid parameters for Monte Carlo pricing. Ensure T > 0, num_paths > 0, num_steps > 0.", gens))
       ELSE IF build = "debug" /\ PathSeedsOverflow(req.seed, req.num_paths)
       THEN Stop(Panic("attempt to add with overflow", gens))
       ELSE /\ path_seeds' = PathSeeds(req.seed, req.num_paths)
            /\ pc' = "mc_paths"
            /\ UNCHANGED << build, req, first, result, i, gens, all_paths, timestamps,
                            response >>

\* one iteration of the path loop of simulate_underlying_paths
McPath ==
    /\ pc = "mc_paths" /\ i < req.num_paths
    /\ \E path \in GeneratePath(req.drift, req.volatility, req.price,
                                McStepDays(req.t, req.n), req.n + 1, path_seeds[i + 1]) :
          all_paths' = Append(all_paths, path)
    /\ i' = i + 1
    /\ gens' = gens + 1
    /\ UNCHANGED << build, req, pc, first, result, path_seeds, timestamps, response >>

\* the payoff loop and the discounting of MonteCarloOptionPricer::price
McPrice ==
    /\ pc = "mc_paths" /\ i = req.num_paths
    /\ IF \E j \in 1..Len(all_paths) : Len(all_paths[j].prices) = 0
       THEN Stop(Err("Generated path has no prices", gens))
       ELSE Stop(OkPrice(McDiscountedPrice(all_paths, req.num_paths, req.strike,
                                           req.option_type, req.drift, req.t), gens))

\* simulate_etf_nav up to the constituent loop
EtfStart ==
    /\ pc = "called" /\ req.op = "simulate_etf"
    /\ IF EtfEntryError(req.constituents, req.n, req.dt) # ""
       THEN Stop(Err(EtfEntryError(req.constituents, req.n, req.dt), gens))
       ELSE /\ pc' = "etf_loop"
            /\ UNCHANGED << build, req, first, result, i, gens, path_seeds, all_paths,
                            timestamps, response >>

\* constituent_seed of the constituent at 0-based index j
ConstituentSeed(seed, j) == IF IsSome(seed) THEN Some(DeriveSeed(seed[1], j)) ELSE None

\* one iteration of the constituent loop of simulate_etf_nav
EtfConstituent ==
    /\ pc = "etf_loop" /\ i < Len(req.constituents)
    /\ LET constituent == req.constituents[i + 1]
       IN  IF ConstituentError(constituent) # ""
           THEN Stop(Err(ConstituentError(constituent), gens))
           ELSE IF build = "debug" /\ IsSome(req.seed) /\ U64Overflows(req.seed[1], i)
           THEN Stop(Panic("attempt to add with overflow", gens))
           ELSE \E res \in SimulateStockPrice(constituent.initial_price, constituent.drift,
                                              constituent.volatility, req.n, req.dt,
                                              ConstituentSeed(req.seed, i)) :
                  IF res.kind = "Ok"
                  THEN /\ timestamps' = IF i = 0 THEN Some(res.series.timestamps)
                                        ELSE timestamps
                       /\ all_paths' = Append(all_paths, res.series.prices)
                       /\ path_seeds' = Append(path_seeds, ConstituentSeed(req.seed, i))
                       /\ gens' = gens + res.gens
                       /\ i' = i + 1
                       /\ UNCHANGED << build, req, pc, first, result, response >>
                  ELSE Stop(Err("Failed to simulate stock price for constituent", gens))

\* the NAV loop of simulate_etf_nav
EtfNav ==
    /\ pc = "etf_loop" /\ i = Len(req.constituents)
    /\ IF ~IsSome(timestamps)
       THEN Stop(Err("Timestamps could not be generated.", gens))
       ELSE Stop(OkSeries(TimeSeries(timestamps[1],
                                     EtfNavPath(req.constituents, all_paths, req.n)), gens))

\* the caller serves the same seeded request a second time
Repeat ==
    /\ pc = "done" /\ first = None /\ IsSome(req.seed)
    /\ first' = Some(result)
    /\ pc' = "called"
    /\ result' = Pending
    /\ i' = 0
    /\ gens' = 0
    /\ path_seeds' = << >>
    /\ all_paths' = << >>
    /\ timestamps' = None
    /\ response' = NoResponse
    /\ UNCHANGED << build, req >>

Next ==
    \/ CallGeneratePath
    \/ SimulateStock
    \/ PriceOptionAnalytic
    \/ SimulateOptionBsHandler
    \/ CallSimulateStockWithConfig
    \/ PriceSeries
    \/ SimulateFutures
    \/ McStart
    \/ McPath
    \/ McPrice
    \/ EtfStart
    \/ EtfConstituent
    \/ EtfNav
    \/ Repeat

Spec == Init /\ [][Next]_vars

\* ------------------------------------- generate_path with small time steps
\* The timestamps of generate_path for time steps far below the resolution
\* One of the prices: here dt is held in units of 1/FineOne day, and the
\* process has drift 0 and volatility 0, whose factor exp(0) is 1 for every
\* dt and every draw.
FineBits == 17
FineOne == 2 ^ FineBits
MaxFineDt == 12

\* dt_duration for a positive dt in units of 1/FineOne day: the cast to i64
\* drops the fraction of a second
FineDtDuration(dt) == (dt * SecondsPerDay) \div FineOne

\* steps from below one second up to a few seconds, and steps that are whole
\* numbers of seconds
FineDts == (1..MaxFineDt) \cup {k * (FineOne \div 128) : k \in 1..3}

TimeRequests ==
    {Request("generate_path", v0, 0, 0, 0, 0, dt, n, 0, 0, seed, "Call", << >>) :
        v0 \in {One, 4 * One}, dt \in FineDts, n \in 0..MaxPoints,
        seed \in {None, Some(1)}}

TimeInit ==
    /\ build \in {"debug", "release"}
    /\ req \in TimeRequests
    /\ pc = "called"
    /\ first = None
    /\ result = OkSeries(NoSeries, 1)
    /\ i = 0
    /\ gens = 1
    /\ path_seeds = << >>
    /\ all_paths = << >>
    /\ timestamps = None
    /\ response = NoResponse

\* one iteration of the loop: push current_price and current_time, multiply
\* current_price by exp(0), add dt_duration to current_time; current_time
\* is the start for the first push and the last pushed time plus
\* dt_duration afterwards
TimePush ==
    /\ pc = "called" /\ i < req.n
    /\ LET ts == result.series.timestamps
           current_time == IF ts = << >> THEN 0
                           ELSE ts[Len(ts)] + FineDtDuration(req.dt)
       IN  result' = OkSeries(TimeSeries(Append(ts, current_time),
                                         Append(result.series.prices, req.price)), 1)
    /\ i' = i + 1
    /\ UNCHANGED << build, req, pc, first, gens, path_seeds, all_paths, timestamps,
                    response >>

\* TimeSeries { timestamps, prices }
TimeReturn ==
    /\ pc = "called" /\ i = req.n
    /\ pc' = "done"
    /\ UNCHANGED << build, req, first, result, i, gens, path_seeds, all_paths,
                    timestamps, response >>

TimeNext ==
    \/ TimePush
    \/ TimeReturn

TimeSpec == TimeInit /\ [][TimeNext]_vars

\* ----------------------------------------------------------------- claims
Done == pc = "done"

Served(op) == Done /\ req.op = op

\* C1: a seeded request served twice returns the same prices and the same
\* timestamps both times, for generate_path, simulate_stock, simulate_futures
\* and simulate_etf.
C1_SeededDeterminism ==
    (Done /\ IsSome(first)
        /\ req.op \in {"generate_path", "simulate_stock", "simulate_futures", "simulate_etf"})
    => (result.kind = first[1].kind
        /\ result.series.prices = first[1].series.prices
        /\ result.series.timestamps = first[1].series.timestamps
        /\ result = first[1])

C1_Witness ==
    /\ Served("generate_path") /\ IsSome(first)
    /\ req.n = MaxPoints /\ req.volatility > 0
    /\ result.series.prices = first[1].series.prices
    /\ result.series.prices[2] # result.series.prices[1]

\* C2: for n >= 1, seeded or not, generate_path returns exactly n prices and
\* n timestamps and its first price is initial_value; so does every
\* successful simulate_stock with days = n.
C2_LengthAndFirstPoint ==
    /\ (Served("generate_path") /\ req.n >= 1)
        => (result.kind = "Ok"
            /\ Len(result.series.prices) = req.n
            /\ Len(result.series.timestamps) = req.n
            /\ result.series.prices[1] = req.price)
    /\ (Served("simulate_stock") /\ result.kind = "Ok")
        => (req.n >= 1
            /\ Len(result.series.prices) = req.n
            /\ Len(result.series.timestamps) = req.n
            /\ result.series.prices[1] = req.price)

C2_Witness ==
    /\ Served("generate_path") /\ ~IsSome(req.seed) /\ req.n = MaxPoints
    /\ result.series.prices[1] = req.price
    /\ result.series.prices[2] # req.price
    /\ Len(result.series.prices) = MaxPoints

\* the price input of the request is <= 0 (for an ETF: of some constituent)
NonPositivePriceInput ==
    IF req.op = "simulate_etf"
    THEN \E j \in 1..Len(req.constituents) : req.constituents[j].initial_price <= 0
    ELSE req.price <= 0

EntryPoints ==
    {"simulate_stock", "price_option_analytic", "price_option_monte_carlo",
     "simulate_futures", "simulate_etf"}

TakesTimeStep == req.op \in {"simulate_stock", "simulate_futures", "simulate_etf"}

\* C3: each of the five entry points returns an error when its price input
\* is <= 0 and, where it takes a time step, when the time step is <= 0: none
\* of them ends such a call with an Ok value.
C3_RejectsNonPositive ==
    (Done /\ req.op \in EntryPoints
        /\ (NonPositivePriceInput \/ (TakesTimeStep /\ req.dt <= 0)))
    => result.kind # "Ok"

\* C4: whenever an entry point returns an error, no generate_path call was
\* made before the error was raised.
C4_ErrorsBeforeSimulation ==
    (Done /\ req.op \in EntryPoints /\ result.kind = "Err") => result.gens = 0

\* C5: price_option_monte_carlo returns an error when T <= 0, num_paths = 0
\* or num_steps_per_path = 0, without generating any path.
C5_McRejectsWithoutPaths ==
    (Served("price_option_monte_carlo")
        /\ (req.t <= 0 \/ req.num_paths = 0 \/ req.n = 0))
    => (result.kind = "Err" /\ result.gens = 0 /\ gens = 0 /\ all_paths = << >>)

C5_Witness ==
    /\ Served("price_option_monte_carlo")
    /\ req.t = 0 /\ req.num_paths > 0 /\ req.n > 0 /\ req.price > 0
    /\ result.kind = "Err" /\ gens = 0

\* the seed the claim gives item j (1-based): the integer seed + (j - 1)
ClaimedSeed(j) == IF IsSome(req.seed) THEN Some(req.seed[1] + (j - 1)) ELSE None

\* the sum of the payoffs of the last elements of the first m paths
ClaimedPayoffSum(m) ==
    LET last(j) == all_paths[j].prices[Len(all_paths[j].prices)]
        acc[j \in 0..m] ==
            IF j = 0 THEN 0
            ELSE FAdd(acc[j - 1],
                      IF req.option_type = "Call"
                      THEN FMaxOf(FSub(last(j), req.strike), 0)
                      ELSE FMaxOf(FSub(req.strike, last(j)), 0))
    IN  acc[m]

\* C6: for valid input price_option_monte_carlo generates num_paths paths,
\* path i a generate_path run of num_steps_per_path + 1 points from
\* underlying_initial_price with drift r and seed seed + i (unseeded
\* without a base seed), and returns e^{-rT} * (sum of payoffs / num_paths).
C6_MonteCarloPrice ==
    (Served("price_option_monte_carlo")
        /\ req.price > 0 /\ req.t > 0 /\ req.num_paths > 0 /\ req.n > 0)
    => (/\ result.kind = "Ok"
        /\ Len(all_paths) = req.num_paths
        /\ \A j \in 1..Len(all_paths) :
              all_paths[j] \in GeneratePath(req.drift, req.volatility, req.price,
                                            McStepDays(req.t, req.n), req.n + 1,
                                            ClaimedSeed(j))
        /\ result.price = FMul(FDiv(ClaimedPayoffSum(req.num_paths), req.num_paths * One),
                               FExp(FMul(FNeg(req.drift), req.t))))

\* the seed of item j (1-based) as a function of the base seed and j alone
IndexedSeed(j) ==
    IF IsSome(req.seed) THEN Some((req.seed[1] + (j - 1)) % SeedMod) ELSE None

\* the path of item j when it is generated on its own, from its own seed
IsolatedPath(j) ==
    IF req.op = "price_option_monte_carlo"
    THEN CHOOSE path \in GeneratePath(req.drift, req.volatility, req.price,
                                      McStepDays(req.t, req.n), req.n + 1, IndexedSeed(j)) :
            TRUE
    ELSE (CHOOSE path \in GeneratePath(req.constituents[j].drift,
                                       req.constituents[j].volatility,
                                       req.constituents[j].initial_price,
                                       req.dt, req.n, IndexedSeed(j)) : TRUE).prices

C9_NegativeMaturityIsBadRequest ==
    (Served("bs_handler") /\ req.t < 0 /\ req.price > 0 /\ req.strike > 0
        /\ req.volatility > 0 /\ req.drift >= 0)
    => (/\ response.code = 400
        /\ response.status = "error"
        /\ response.error = "Time to maturity (T) must be positive if not zero")

\* C10: price_option_analytic returns an error when S <= 0 or K <= 0 for
\* every T, and for sigma <= 0 (S, K positive) it returns an error exactly
\* when T > 0.
C10_AnalyticValidation ==
    Served("price_option_analytic")
    => (/\ (req.price <= 0 \/ req.strike <= 0) => result.kind = "Err"
        /\ (req.price > 0 /\ req.strike > 0 /\ req.volatility <= 0)
            => (result.kind = "Err" <=> req.t > 0))

C10_Witness ==
    /\ Served("price_option_analytic")
    /\ req.t <= 0 /\ req.price <= 0 /\ req.strike > 0
    /\ result.kind = "Err" /\ result.msg = "Underlying price (S) must be positive. Got {}"

\* the Monte Carlo request derives no seed outside the u64 range
McSeedsInRange ==
    IsSome(req.seed) => req.seed[1] + req.num_paths <= SeedMod

\* C11: when e^{-rT} overflows to infinity (T > 0, r far below 0) and every
\* other input is valid, price_option_analytic and price_option_monte_carlo
\* both return an error, never a price.
C11_DiscountOverflowIsError ==
    (Done /\ req.op \in {"price_option_analytic", "price_option_monte_carlo"}
        /\ req.t > 0 /\ req.drift < 0 /\ IsInf(DiscountFactor(req.drift, req.t))
        /\ req.price > 0 /\ req.strike > 0 /\ req.volatility > 0
        /\ (req.op = "price_option_monte_carlo"
                => (req.num_paths > 0 /\ req.n > 0 /\ McSeedsInRange)))
    => (result.kind = "Err" /\ IsFinite(result.price))

C13_FuturesValidation ==
    Served("simulate_futures")
    => (/\ result.kind \in {"Ok", "Err"}
        /\ result.kind = "Err" <=> (req.price <= 0 \/ req.volatility < 0 \/ req.dt <= 0)
        /\ (req.price > 0 /\ req.dt > 0 /\ req.ttm = 0 /\ req.volatility = 0)
            => result.kind = "Ok")

C13_Witness ==
    /\ Served("simulate_futures") /\ req.ttm = 0 /\ req.volatility = 0
    /\ req.price > 0 /\ req.dt > 0
    /\ result.kind = "Ok" /\ Len(result.series.prices) = 1

\* ceil(time_to_maturity_days / time_step_days) in the integers: the least
\* number of steps that reaches maturity
CeilSteps ==
    CHOOSE c \in 0..req.ttm :
        /\ c * req.dt >= req.ttm * One
        /\ c > 0 => (c - 1) * req.dt < req.ttm * One

\* the number of points the claim gives a futures path
ClaimedFuturesPoints == IF req.ttm = 0 THEN 1 ELSE CeilSteps + 1

\* the spot path of the served contract is a generate_path run of `points`
\* points with the given drift and the contract's other parameters and seed
SpotPathOf(drift, points) ==
    /\ Len(all_paths) = 1
    /\ all_paths[1] \in GeneratePath(drift, req.volatility, req.price, req.dt, points, req.seed)

\* C14: a successful simulate_futures returns ceil(ttm / dt) + 1 prices when
\* time_to_maturity_days > 0 and 1 price when it is 0, as many timestamps,
\* and the timestamps are those of the spot path generated with drift r.
C14_FuturesLength ==
    (Served("simulate_futures") /\ req.price > 0 /\ req.volatility >= 0 /\ req.dt > 0)
    => (/\ result.kind = "Ok"
        /\ Len(result.series.prices) = ClaimedFuturesPoints
        /\ Len(result.series.timestamps) = ClaimedFuturesPoints
        /\ SpotPathOf(req.drift, ClaimedFuturesPoints)
        /\ result.series.timestamps = all_paths[1].timestamps)

C14_Witness ==
    /\ Served("simulate_futures") /\ result.kind = "Ok"
    /\ req.ttm = 365 /\ req.dt = 252 * One
    /\ Len(result.series.prices) = 3
    /\ result.series.timestamps = << 0, 252 * SecondsPerDay, 504 * SecondsPerDay >>

\* C15: the last futures price of a successful simulate_futures is the last
\* price of its spot path (the remaining time there is 0, clamped when the
\* last point lies past maturity), and for time_to_maturity_days = 0 the one
\* price returned is initial_spot_price.
C15_ConvergenceAtMaturity ==
    (Served("simulate_futures") /\ req.price > 0 /\ req.volatility >= 0 /\ req.dt > 0)
    => (/\ result.kind = "Ok"
        /\ SpotPathOf(req.drift, Len(result.series.prices))
        /\ LastPrice(result.series) = LastPrice(all_paths[1])
        /\ req.ttm = 0 => result.series.prices = << req.price >>)

C15_Witness ==
    /\ Served("simulate_futures") /\ result.kind = "Ok"
    /\ req.ttm = 365 /\ req.dt = 252 * One /\ req.drift > 0
    /\ 2 * req.dt > req.ttm * One
    /\ result.series.prices[1] # all_paths[1].prices[1]
    /\ LastPrice(result.series) = LastPrice(all_paths[1])
    /\ LastPrice(all_paths[1]) > 0

\* C16: with risk_free_rate = 0 a successful simulate_futures returns at
\* every index the price of the spot path generated with drift 0 and the
\* contract's volatility, initial_spot_price, time_step_days and seed.
C16_ZeroRateIsSpot ==
    (Served("simulate_futures") /\ req.drift = 0
        /\ req.price > 0 /\ req.volatility >= 0 /\ req.dt > 0)
    => (/\ result.kind = "Ok"
        /\ SpotPathOf(0, Len(result.series.prices))
        /\ result.series.prices = all_paths[1].prices)

C16_Witness ==
    /\ Served("simulate_futures") /\ result.kind = "Ok"
    /\ req.drift = 0 /\ req.volatility > 0 /\ req.ttm = 504 /\ req.dt = 252 * One
    /\ Len(result.series.prices) = 3
    /\ result.series.prices = all_paths[1].prices
    /\ result.series.prices[2] # result.series.prices[1]

\* the sum of the weights in the integers
WeightSum ==
    LET acc[j \in 0..Len(req.constituents)] ==
            IF j = 0 THEN 0 ELSE acc[j - 1] + req.constituents[j].weight
    IN  acc[Len(req.constituents)]

\* the ETF request has one of the defects the composer is to reject
EtfRejectable ==
    \/ Len(req.constituents) = 0
    \/ WeightSum - One > WeightSumAccuracy
    \/ One - WeightSum > WeightSumAccuracy
    \/ req.n = 0
    \/ req.dt <= 0
    \/ \E j \in 1..Len(req.constituents) :
          \/ req.constituents[j].initial_price <= 0
          \/ req.constituents[j].volatility < 0
          \/ req.constituents[j].weight < 0

\* C17: simulate_etf returns an error, and no NAV path, when the constituent
\* list is empty, the weights do not sum to 1.0 within 1e-6, simulation_days
\* is 0, time_step_days <= 0, or a constituent at any index has
\* initial_price <= 0, volatility < 0 or weight < 0.
C17_EtfValidation ==
    (Served("simulate_etf") /\ EtfRejectable)
    => (result.kind = "Err" /\ result.series = NoSeries)

\* an ETF of exactly one constituent, of weight 1.0, with a base seed and
\* otherwise valid input
SingleConstituentEtf ==
    /\ Served("simulate_etf") /\ IsSome(req.seed)
    /\ Len(req.constituents) = 1 /\ req.constituents[1].weight = One
    /\ req.constituents[1].initial_price > 0 /\ req.constituents[1].volatility >= 0
    /\ req.n > 0 /\ req.dt > 0

\* what simulate_stock returns for the one constituent with seed s + 0
SingleStockRun ==
    CHOOSE res \in SimulateStockPrice(req.constituents[1].initial_price,
                                      req.constituents[1].drift,
                                      req.constituents[1].volatility,
                                      req.n, req.dt, Some(req.seed[1] + 0)) : TRUE

\* C18 as stated: the NAV of a single-constituent ETF of weight 1.0 is at
\* every index the quotient price_t / initial_price of the stock path
\* simulated with seed s + 0, and its timestamps are that path's.
C18_SingleConstituentQuotient ==
    SingleConstituentEtf
    => (/\ result.kind = "Ok" /\ SingleStockRun.kind = "Ok"
        /\ result.series.timestamps = SingleStockRun.series.timestamps
        /\ Len(result.series.prices) = Len(SingleStockRun.series.prices)
        /\ \A k \in 1..Len(result.series.prices) :
              result.series.prices[k] =
                  FDiv(SingleStockRun.series.prices[k], req.constituents[1].initial_price))

\* C18, amended: the NAV of a single-constituent ETF of weight 1.0 is at
\* every index the product (1.0 / initial_price) * price_t of the share
\* count and the price of the stock path simulated with seed s + 0, and its
\* timestamps are that path's.
C18_SingleConstituentShares ==
    SingleConstituentEtf
    => (/\ result.kind = "Ok" /\ SingleStockRun.kind = "Ok"
        /\ result.series.timestamps = SingleStockRun.series.timestamps
        /\ Len(result.series.prices) = Len(SingleStockRun.series.prices)
        /\ \A k \in 1..Len(result.series.prices) :
              result.series.prices[k] =
                  FMul(FDiv(One, req.constituents[1].initial_price),
                       SingleStockRun.series.prices[k]))

C18_Witness ==
    /\ SingleConstituentEtf /\ result.kind = "Ok" /\ req.n = MaxPoints
    /\ req.constituents[1].initial_price = 3 * One
    /\ result.series.prices[1] = FMul(FDiv(One, 3 * One), 3 * One)
    /\ result.series.prices[1] # One
    /\ result.series.timestamps = SingleStockRun.series.timestamps

\* the seed the claim gives constituent j (1-based): the integer base + (j - 1)
ClaimedConstituentSeed(j) ==
    IF IsSome(req.seed) THEN Some(req.seed[1] + (j - 1)) ELSE None

\* the price paths constituent j may yield on its own with the claimed seed
ClaimedConstituentPaths(j) ==
    {path.prices :
        path \in GeneratePath(req.constituents[j].drift, req.constituents[j].volatility,
                              req.constituents[j].initial_price, req.dt, req.n,
                              ClaimedConstituentSeed(j))}

\* the sum over the constituents of (weight / initial_price) * price at index t
ClaimedNav(t) ==
    LET acc[j \in 0..Len(req.constituents)] ==
            IF j = 0 THEN 0
            ELSE FAdd(acc[j - 1],
                      FMul(FDiv(req.constituents[j].weight,
                                req.constituents[j].initial_price),
                           all_paths[j][t]))
    IN  acc[Len(req.constituents)]

\* C19: for every valid ETF simulate_etf returns at every index t the sum
\* over the constituents j of (weight_j / initial_price_j) * price_j[t],
\* price_j being constituent j's own path generated with seed base_seed + j.
C19_NavIsWeightedSum ==
    (Served("simulate_etf") /\ ~EtfRejectable)
    => (/\ result.kind = "Ok"
        /\ Len(all_paths) = Len(req.constituents)
        /\ \A j \in 1..Len(all_paths) : all_paths[j] \in ClaimedConstituentPaths(j)
        /\ Len(result.series.prices) = req.n
        /\ \A k \in 1..Len(result.series.prices) : result.series.prices[k] = ClaimedNav(k))

\* the timestamps a stock run of constituent j may return, whatever its seed
StockRunTimestamps(j) ==
    {res.series.timestamps :
        res \in UNION {SimulateStockPrice(req.constituents[j].initial_price,
                                          req.constituents[j].drift,
                                          req.constituents[j].volatility,
                                          req.n, req.dt, seed) : seed \in LoopSeedOptions}}

\* C20: for every valid ETF every constituent path has simulation_days
\* points and the one timestamp sequence all stock runs share, and the
\* result has simulation_days NAV values and simulation_days timestamps,
\* those of the first constituent.
C20_EtfPathLengths ==
    (Served("simulate_etf") /\ ~EtfRejectable)
    => (/\ result.kind = "Ok"
        /\ Len(all_paths) = Len(req.constituents)
        /\ \A j \in 1..Len(all_paths) : Len(all_paths[j]) = req.n
        /\ \A j \in 1..Len(req.constituents) :
              StockRunTimestamps(j) = {result.series.timestamps}
        /\ Len(result.series.prices) = req.n
        /\ Len(result.series.timestamps) = req.n)

\* C22: every price of a path returned by simulate_stock for accepted input
\* (initial_price > 0, volatility >= 0, time_step_days > 0, days > 0) is
\* strictly positive, whatever the seed.
C22_PricesArePositive ==
    (Served("simulate_stock")
        /\ req.price > 0 /\ req.volatility >= 0 /\ req.dt > 0 /\ req.n > 0)
    => (/\ result.kind = "Ok"
        /\ \A k \in 1..Len(result.series.prices) :
              ~IsNaN(result.series.prices[k]) /\ result.series.prices[k] > 0)

\* C27: every seed derived in the Monte Carlo pricer and the ETF composer is
\* the integer base + index, inside the u64 range, and no derivation aborts
\* the computation.
C27_SeedsStayInRange ==
    (req.op \in {"price_option_monte_carlo", "simulate_etf"} /\ IsSome(req.seed))
    => (/\ result.msg # "attempt to add with overflow"
        /\ \A j \in 1..Len(path_seeds) :
              /\ path_seeds[j] = Some(req.seed[1] + (j - 1))
              /\ path_seeds[j][1] < SeedMod)

\* the one path generate_path returns for the served seeded request when it
\* is asked for `points` points
SeededPath(points) ==
    CHOOSE path \in GeneratePath(req.drift, req.volatility, req.price, req.dt, points,
                                 req.seed) : TRUE

\* C28: for a seeded generate_path of m points and every n <= m, the path of
\* n points with the same arguments is the first n prices and timestamps of
\* the path of m points; and two draw sequences that differ only in the draw
\* made after the last point give the same path.
C28_PrefixProperty ==
    (Served("generate_path") /\ IsSome(req.seed))
    => (/\ \A n \in 0..req.n :
              /\ SeededPath(n).prices = SubSeq(result.series.prices, 1, n)
              /\ SeededPath(n).timestamps = SubSeq(result.series.timestamps, 1, n)
        /\ \A ws \in [1..req.n -> NormalValues] :
              \A w \in NormalValues :
                  GbmPath(req.drift, req.volatility, req.price, req.dt, req.n, ws)
                      = GbmPath(req.drift, req.volatility, req.price, req.dt, req.n,
                                [k \in 1..req.n |-> IF k = req.n THEN w ELSE ws[k]]))

C28_Witness ==
    /\ Served("generate_path") /\ IsSome(req.seed)
    /\ req.n = MaxPoints /\ req.volatility > 0
    /\ SeededPath(2).prices = SubSeq(result.series.prices, 1, 2)
    /\ result.series.prices[2] # result.series.prices[1]
    /\ result.series.prices[3] # result.series.prices[2]
    /\ NormalStream(req.seed[1], 1) # NormalStream(req.seed[1], 2)

\* rem_i of the claim, in days on the grid: max(0, ttm - i * dt), i 0-based
ClaimedRemainingDays(idx) ==
    IF req.ttm * One - idx * req.dt > 0 THEN req.ttm * One - idx * req.dt ELSE 0

\* C25: at every index i of a successful simulate_futures the price is
\* F_i = S_i * e^{r * rem_i}, rem_i = max(0, ttm - i * dt) / 365, which is
\* never negative and never increases; with r > 0 therefore F_i >= S_i, with
\* equality wherever rem_i = 0.
C25_CostOfCarry ==
    (Served("simulate_futures") /\ req.price > 0 /\ req.volatility >= 0 /\ req.dt > 0)
    => (/\ result.kind = "Ok" /\ Len(all_paths) = 1
        /\ Len(result.series.prices) = Len(all_paths[1].prices)
        /\ \A k \in 1..Len(result.series.prices) :
              LET rem == FDiv(ClaimedRemainingDays(k - 1), DaysInYear * One)
                  spot == all_paths[1].prices[k]
              IN  /\ result.series.prices[k] = FMul(spot, FExp(FMul(req.drift, rem)))
                  /\ rem >= 0
                  /\ k > 1 => ClaimedRemainingDays(k - 1) <= ClaimedRemainingDays(k - 2)
                  /\ req.drift > 0 => result.series.prices[k] >= spot
                  /\ ClaimedRemainingDays(k - 1) = 0 => result.series.prices[k] = spot)

C25_Witness ==
    /\ Served("simulate_futures") /\ result.kind = "Ok"
    /\ req.drift > 0 /\ req.ttm = 504 /\ req.dt = 252 * One
    /\ Len(result.series.prices) = 3
    /\ result.series.prices[1] > all_paths[1].prices[1]
    /\ result.series.prices[2] > all_paths[1].prices[2]
    /\ result.series.prices[3] = all_paths[1].prices[3]
    /\ all_paths[1].prices[3] > 0

\* the price after one increment of year fraction dtf with the draw w
ClaimedIncrement(price, dtf, w) ==
    FMul(price,
         FExp(FAdd(FMul(FSub(req.drift, FMul(Half, FMul(req.volatility, req.volatility))),
                        dtf),
                   FMul(FMul(req.volatility, FSqrt(dtf)), w))))

\* C24: the Monte Carlo step of T * 252 / num_steps_per_path days converts
\* back, by the 252-day year of generate_path, to the year fraction
\* T / num_steps_per_path; every increment of every path is one of that year
\* fraction, and the num_steps_per_path increments up to S_T span T (up to
\* the rounding of the quotient).
C24_DayCountConsistency ==
    (req.op = "price_option_monte_carlo" /\ req.t > 0 /\ req.n > 0)
    => LET dtf == FDiv(req.t, req.n * One)
       IN  /\ DtForFormula(McStepDays(req.t, req.n)) = dtf
           /\ req.n * dtf <= req.t /\ req.t < req.n * (dtf + 1)
           /\ \A j \in 1..Len(all_paths) :
                 /\ Len(all_paths[j].prices) = req.n + 1
                 /\ \A k \in 1..req.n :
                       \E w \in NormalValues :
                           all_paths[j].prices[k + 1]
                               = ClaimedIncrement(all_paths[j].prices[k], dtf, w)

C24_Witness ==
    /\ Served("price_option_monte_carlo") /\ result.kind = "Ok"
    /\ req.t = One /\ req.n = 2 /\ req.drift = One /\ req.price > 0
    /\ DtForFormula(McStepDays(req.t, req.n)) = Half
    /\ Len(all_paths) = req.num_paths /\ req.num_paths > 0
    /\ all_paths[1].prices[3] # all_paths[1].prices[2]
    /\ all_paths[1].timestamps[2] = 126 * SecondsPerDay

\* the price black_scholes_price returns for the served option as a call / put
ParityPrice(option_type) ==
    BlackScholesPrice(req.price, req.strike, req.t, req.drift, req.volatility,
                      option_type).price

\* a and b are the same value, or finite and one grid step apart at most
EqualUpToRounding(a, b) ==
    /\ ~IsNaN(a) /\ ~IsNaN(b)
    /\ \/ a = b
       \/ IsFinite(a) /\ IsFinite(b) /\ a - b <= 1 /\ b - a <= 1

\* C29: for S > 0, K > 0, sigma > 0 and every r for which the analytic
\* pricer returns a price, Call - Put = S - K * e^{-rT} when T > 0 (here up
\* to one rounding step) and Call - Put = S - K when T <= 0.
C29_PutCallParity ==
    (Served("price_option_analytic") /\ result.kind = "Ok"
        /\ req.price > 0 /\ req.strike > 0 /\ req.volatility > 0)
    => (/\ result.price = ParityPrice(req.option_type)
        /\ IF req.t > 0
           THEN EqualUpToRounding(FSub(ParityPrice("Call"), ParityPrice("Put")),
                                  FSub(req.price,
                                       FMul(req.strike, FExp(FMul(FNeg(req.drift), req.t)))))
           ELSE FSub(ParityPrice("Call"), ParityPrice("Put")) = req.price - req.strike)

\* the indices of the underlying prices black_scholes_price fails on
FailingElements ==
    {j \in 1..Len(req.underlying_prices) :
        BlackScholesPrice(req.underlying_prices[j], req.strike, req.t, req.drift,
                          req.volatility, req.option_type).kind = "Err"}

\* C26: price_series_for_black_scholes returns, when no element fails, the
\* list of the elements' black_scholes_price values in input order, and
\* otherwise the error of the first failing element and no list.
C26_SeriesAllOrNothing ==
    Served("price_series")
    => IF FailingElements = {}
       THEN /\ result.kind = "Ok"
            /\ Len(result.series.prices) = Len(req.underlying_prices)
            /\ \A j \in 1..Len(req.underlying_prices) :
                  result.series.prices[j] =
                      BlackScholesPrice(req.underlying_prices[j], req.strike, req.t,
                                        req.drift, req.volatility, req.option_type).price
       ELSE /\ result.kind = "Err"
            /\ result.series = NoSeries
            /\ \E j \in FailingElements :
                  /\ \A m \in FailingElements : j <= m
                  /\ result = BlackScholesPrice(req.underlying_prices[j], req.strike,
                                                req.t, req.drift, req.volatility,
                                                req.option_type)

C26_Witness ==
    /\ Served("price_series") /\ Len(req.underlying_prices) = MaxPoints
    /\ req.underlying_prices[1] > 0
    /\ req.underlying_prices[2] = 0 - One
    /\ req.underlying_prices[3] = 0
    /\ result.kind = "Err" /\ result.price = 0 - One
    /\ result.msg = "Underlying price (S) must be positive. Got {}"

\* the positions of the stock entries of the configured list whose pattern is
\* the requested identifier
MatchingModels ==
    IF req.config.asset_models = None THEN {}
    ELSE {j \in 1..Len(req.config.asset_models[1]) :
            /\ req.config.asset_models[1][j].asset_type = "stock"
            /\ req.config.asset_models[1][j].asset_identifier_pattern = req.asset_identifier}

FirstMatchingModel ==
    req.config.asset_models[1][CHOOSE j \in MatchingModels : \A m \in MatchingModels : j <= m]

NoModelFound ==
    /\ result.kind = "Err" /\ result.series = NoSeries /\ gens = 0
    /\ result.msg = "No model config found for stock identifier: {}"
    /\ result.asset_identifier = req.asset_identifier

GbmNotConfigured ==
    /\ result.kind = "Err" /\ result.series = NoSeries /\ gens = 0
    /\ result.msg = "GBM parameters not configured for identifier: {}"
    /\ result.asset_identifier = req.asset_identifier

\* C23 as stated: whenever the config has no stock entry for the identifier
\* the error is "No model config found for stock identifier: <id>", and when
\* the first such entry has no gbm parameters it is "GBM parameters not
\* configured for identifier: <id>"; no path is simulated.
C23_LookupErrors ==
    Served("simulate_stock_with_config")
    => IF MatchingModels = {} THEN NoModelFound
       ELSE (FirstMatchingModel.parameters.gbm = None) => GbmNotConfigured

\* C23, amended: a config without an asset_models list is answered with "No
\* asset_models configured in GlobalConfig."; a list without a stock entry
\* for the identifier with "No model config found for stock identifier:
\* <id>"; a first such entry without gbm parameters with "GBM parameters not
\* configured for identifier: <id>"; in all three cases no path is simulated.
C23_LookupErrorsWithList ==
    Served("simulate_stock_with_config")
    => IF req.config.asset_models = None
       THEN /\ result = Err("No asset_models configured in GlobalConfig.", 0)
            /\ gens = 0
       ELSE IF MatchingModels = {} THEN NoModelFound
       ELSE (FirstMatchingModel.parameters.gbm = None) => GbmNotConfigured

C23_Witness ==
    /\ Served("simulate_stock_with_config") /\ req.asset_identifier = "AAPL"
    /\ IsSome(req.config.asset_models) /\ Len(req.config.asset_models[1]) = 2
    /\ req.config.asset_models[1][1].asset_type = "option"
    /\ req.config.asset_models[1][1].asset_identifier_pattern = "AAPL"
    /\ req.config.asset_models[1][2].asset_identifier_pattern = "DEFAULT_STOCK"
    /\ req.price > 0
    /\ NoModelFound

\* the drift and the volatility the claim names: the override if present,
\* else the value configured in the first matching entry
ClaimedDrift ==
    IF req.override_drift # None THEN req.override_drift[1]
    ELSE FirstMatchingModel.parameters.gbm[1].drift

ClaimedVolatility ==
    IF req.override_volatility # None THEN req.override_volatility[1]
    ELSE FirstMatchingModel.parameters.gbm[1].volatility

LookupSucceeds ==
    /\ Served("simulate_stock_with_config")
    /\ MatchingModels # {}
    /\ FirstMatchingModel.parameters.gbm # None

C21_FixedTimeStep ==
    (Done /\ req.op = "generate_path" /\ req.dt > 0 /\ result.kind = "Ok")
    => LET ts == result.series.timestamps
       IN  /\ Len(ts) = req.n
           /\ (req.n > 0) => ts[1] = 0
           /\ \A k \in 1..(Len(ts) - 1) :
                 /\ (ts[k + 1] - ts[k]) * FineOne = req.dt * SecondsPerDay
                 /\ ts[k + 1] > ts[k]

====
